---- MODULE Spec2Model ----
(***************************************************************************)
(* Hack-or-Snooze client data/session layer (src/js/models.js).            *)
(*                                                                         *)
(* The client objects (User, StoryList, Story) live in a small heap.  Each *)
(* async method is split at its await: the call action runs the code up to *)
(* the fetch, the remote service (or the network) then settles the         *)
(* request, and the resume action runs the code after the await.  Every    *)
(* method awaits fetch() and then response.json() with no statement in     *)
(* between, so the two awaits are one resume step: nothing the method      *)
(* reads or writes can change between them.                                *)
(*                                                                         *)
(* A Story is modelled by its storyId and username; title, author, url and *)
(* createdAt are copied verbatim by the constructor and never read by the  *)
(* code modelled here.  Likewise name and createdAt of a User.             *)
(***************************************************************************)
EXTENDS Integers, Sequences, FiniteSets, Bags, TLC

\* Bound: number of method invocations in one behaviour.
MaxCalls == 2
\* Bound: stories the service holds at start (ids 1..NumStories).
NumStories == 2
\* Bound: clicks on star icons in one behaviour.
MaxClicks == 2

\* Story ids a caller may pass: the initial ones and one the service has not
\* issued at start (an unknown identifier until a story is created).
StoryIds == 1..(NumStories + 1)
Usernames == {"u1", "u2"}
\* The token the service issues for an account, and a token it never issued.
TokenOf == [u \in Usernames |-> IF u = "u1" THEN "t1" ELSE "t2"]
StaleToken == "t0"
Passwords == {"pw", "bad"}
\* JavaScript's undefined, where the code stores a missing property.
Undefined == "undefined"

VARIABLES
  users,        \* heap of User instances, in order of construction
  lists,        \* heap of StoryList instances: each its stories sequence
  calls,        \* bag of the invocations suspended at their await
  last,         \* how the most recently settled invocation ended
  nCalls,       \* invocations started
  fetches,      \* requests handed to fetch()
  srvStories,   \* service: story records, newest first
  srvAccounts,  \* service: registered usernames
  srvFavs,      \* service: favorite story ids of each account
  stars,        \* page: class of the star icon rendered for each story id
  clicks        \* page: clicks on star icons so far

vars == <<users, lists, calls, last, nCalls, fetches, srvStories, srvAccounts,
          srvFavs, stars, clicks>>
page == <<stars, clicks>>
server == <<srvStories, srvAccounts, srvFavs>>

-----------------------------------------------------------------------------
\* Generic helpers

Has(obj, f) == f \in DOMAIN obj

Ids(stories) == {stories[i].storyId : i \in DOMAIN stories}

-----------------------------------------------------------------------------
\* Story, StoryList, User

\* Story constructor: destructures the record it is given.
NewStory(data) == [storyId |-> data.storyId, username |-> data.username]

MapStories(records) == [i \in DOMAIN records |-> NewStory(records[i])]

\* User constructor.
NewUser(data, token) ==
  [username   |-> data.username,
   favorites  |-> MapStories(data.favorites),
   ownStories |-> MapStories(data.ownStories),
   loginToken |-> token]

\* isFavorite: scan of favorites by storyId.
isFavorite(user, story) ==
  \E i \in DOMAIN user.favorites : user.favorites[i].storyId = story.storyId

\* The Story a caller holds for an id.
StoryArg(id) == [storyId |-> id, username |-> "u1"]

-----------------------------------------------------------------------------
\* Requests and responses

NoBody == [nobody |-> TRUE]
Pending == [state |-> "pending", ok |-> FALSE, body |-> NoBody]
\* fetch() rejected: transport failure.
Rejected == [state |-> "rejected", ok |-> FALSE, body |-> NoBody]
\* fetch() resolved, response.json() rejects: the body is not JSON.
NotJson == [state |-> "notjson", ok |-> FALSE, body |-> NoBody]
\* fetch() resolved with a JSON body; ok is the HTTP status being 2xx.
Json(ok, body) == [state |-> "json", ok |-> ok, body |-> body]
ErrorBody == [error |-> "error"]

NoLast ==
  [op |-> "none", state |-> "pending", ok |-> FALSE,
   outcome |-> "none", value |-> "none"]

\* An invocation reaching its fetch: one request goes out, the method suspends.
Fetch(op, this, story, username, cred) ==
  /\ nCalls < MaxCalls
  /\ nCalls' = nCalls + 1
  /\ fetches' = fetches + 1
  /\ calls' = calls (+) SetToBag({[op |-> op, this |-> this, story |-> story,
                                   username |-> username, cred |-> cred,
                                   resp |-> Pending]})
  /\ UNCHANGED page

\* The invocation settles: it leaves the suspended set and its caller sees
\* the outcome ("returned" with a value, or "threw").
Settle(c, outcome, value) ==
  /\ calls' = calls (-) SetToBag({c})
  /\ last' = [op |-> c.op, state |-> c.resp.state, ok |-> c.resp.ok,
              outcome |-> outcome, value |-> value]
  /\ UNCHANGED <<nCalls, fetches, page>>

Return(c, value) == Settle(c, "returned", value)

\* An exception raised after the await (TypeError on a missing property).
Throw(c) == Settle(c, "threw", "error")

\* A retry loop around fetch(): the request is issued again.
FetchRetried(c) ==
  /\ calls' = (calls (-) SetToBag({c})) (+) SetToBag({[c EXCEPT !.resp = Pending]})
  /\ fetches' = fetches + 1
  /\ UNCHANGED <<last, nCalls, page>>

\* The awaited fetch() rejected and nothing catches it.
FetchRejected(c) == Settle(c, "threw", "error")

\* The awaited response.json() rejected and nothing catches it.
JsonRejected(c) == Settle(c, "threw", "error")

Ready(c, op) ==
  /\ BagIn(c, calls)
  /\ c.op = op
  /\ c.resp.state # "pending"

-----------------------------------------------------------------------------
-----------------------------------------------------------------------------
\* The remote service (spec section 6) and the network

\* UserRecord of an account: favorites and own stories in the service's order.
SrvUser(u) ==
  [username  |-> u,
   favorites |-> SelectSeq(srvStories, LAMBDA r : r.storyId \in srvFavs[u]),
   stories   |-> SelectSeq(srvStories, LAMBDA r : r.username = u)]

SrvStory(id) == (CHOOSE k \in DOMAIN srvStories : srvStories[k].storyId = id)

\* The account a token authenticates, as a set (empty: the token is rejected).
TokenOwner(token) == {u \in srvAccounts : TokenOf[u] = token}

\* The star click handler, suspended at its await of Story.getStory.
HandlerOp == "selectAndUnselectFavoriteStory"

\* The service's answer to a request and its state afterwards.
ServeResult(c) ==
  LET same == [stories |-> srvStories, accounts |-> srvAccounts, favs |-> srvFavs]
      err  == [resp |-> Json(FALSE, ErrorBody)] @@ same
      auth == c.username \in srvAccounts /\ c.cred = TokenOf[c.username]
  IN
  CASE c.op \in {"getStory", HandlerOp} ->
         IF c.story \in Ids(srvStories)
         THEN [resp |-> Json(TRUE, [story |-> srvStories[SrvStory(c.story)]])] @@ same
         ELSE err
    [] c.op = "getStories" ->
         [resp |-> Json(TRUE, [stories |-> srvStories])] @@ same
    [] c.op = "addStory" ->
         IF TokenOwner(c.cred) # {}
         THEN LET rec == [storyId  |-> Len(srvStories) + 1,
                          username |-> CHOOSE u \in TokenOwner(c.cred) : TRUE]
              IN [resp |-> Json(TRUE, [story |-> rec]),
                  stories |-> <<rec>> \o srvStories,
                  accounts |-> srvAccounts, favs |-> srvFavs]
         ELSE err
    [] c.op = "signup" ->
         IF c.username \notin srvAccounts
         THEN [resp |-> Json(TRUE, [token |-> TokenOf[c.username],
                                    user |-> SrvUser(c.username)]),
               stories |-> srvStories,
               accounts |-> srvAccounts \cup {c.username}, favs |-> srvFavs]
         ELSE err
    [] c.op = "login" ->
         IF c.username \in srvAccounts /\ c.cred = "pw"
         THEN [resp |-> Json(TRUE, [token |-> TokenOf[c.username],
                                    user |-> SrvUser(c.username)])] @@ same
         ELSE err
    [] c.op = "loginViaStoredCredentials" ->
         IF auth
         THEN [resp |-> Json(TRUE, [user |-> SrvUser(c.username)])] @@ same
         ELSE err
    [] c.op = "addFavorite" ->
         IF auth /\ c.story \in Ids(srvStories)
         THEN [resp |-> Json(TRUE, [message |-> "ok"]),
               stories |-> srvStories, accounts |-> srvAccounts,
               favs |-> [srvFavs EXCEPT ![c.username] = @ \cup {c.story}]]
         ELSE err
    [] c.op = "removeFavorite" ->
         IF auth /\ c.story \in Ids(srvStories)
         THEN [resp |-> Json(TRUE, [message |-> "ok"]),
               stories |-> srvStories, accounts |-> srvAccounts,
               favs |-> [srvFavs EXCEPT ![c.username] = @ \ {c.story}]]
         ELSE err

IsPending(c) == BagIn(c, calls) /\ c.resp.state = "pending"

Answer(c, resp) ==
  /\ calls' = (calls (-) SetToBag({c})) (+) SetToBag({[c EXCEPT !.resp = resp]})
  /\ UNCHANGED <<users, lists, last, nCalls, fetches, page>>

Apply(res) ==
  /\ srvStories' = res.stories
  /\ srvAccounts' = res.accounts
  /\ srvFavs' = res.favs

\* The request reaches the service and its response reaches the client.
\* Pending requests are served in any order.
Serve(c) ==
  /\ IsPending(c)
  /\ LET res == ServeResult(c) IN Answer(c, res.resp) /\ Apply(res)

\* The request never reaches the service: fetch() rejects.
DropRequest(c) ==
  /\ IsPending(c)
  /\ Answer(c, Rejected)
  /\ UNCHANGED server

\* The service refuses the request without handling it (invalid payload,
\* overload): a non-success status with an error body.
Refuse(c) ==
  /\ IsPending(c)
  /\ Answer(c, Json(FALSE, ErrorBody))
  /\ UNCHANGED server

\* Something in between answers with a body that is not JSON.
BadGateway(c) ==
  /\ IsPending(c)
  /\ Answer(c, NotJson)
  /\ UNCHANGED server

-----------------------------------------------------------------------------
\* Story.getStory

GetStory(id) ==
  /\ Fetch("getStory", 0, id, "", "")
  /\ UNCHANGED <<users, lists, last, server>>

GetStoryResume(c) ==
  /\ Ready(c, "getStory")
  /\ LET r == c.resp IN
       IF r.state = "rejected" THEN FetchRejected(c)
       ELSE IF r.state = "notjson" THEN JsonRejected(c)
       ELSE IF ~Has(r.body, "story") THEN Throw(c)
       ELSE Return(c, "Story")
  /\ UNCHANGED <<users, lists, server>>

-----------------------------------------------------------------------------
\* StoryList.getStories

GetStories ==
  /\ Fetch("getStories", 0, 0, "", "")
  /\ UNCHANGED <<users, lists, last, server>>

GetStoriesResume(c) ==
  /\ Ready(c, "getStories")
  /\ LET r == c.resp IN
       IF r.state = "rejected" THEN FetchRejected(c) /\ UNCHANGED lists
       ELSE IF r.state = "notjson" THEN JsonRejected(c) /\ UNCHANGED lists
       ELSE IF ~Has(r.body, "stories") THEN Throw(c) /\ UNCHANGED lists
       ELSE /\ lists' = Append(lists, MapStories(r.body.stories))
            /\ Return(c, "StoryList")
  /\ UNCHANGED <<users, server>>

-----------------------------------------------------------------------------
\* StoryList.addStory

\* Array.prototype.push in place of unshift.
Push(stories, story) == Append(stories, story)

\* Array.prototype.unshift
Unshift(stories, story) == <<story>> \o stories

AddStory(l, u) ==
  /\ l \in DOMAIN lists
  /\ u \in DOMAIN users
  /\ Fetch("addStory", l, 0, "", users[u].loginToken)
  /\ UNCHANGED <<users, lists, last, server>>

\* addStory inserting a Story built from what it has even when the request
\* failed (no storyId: the response carries none).
AddStoryResumeEager(c) ==
  /\ Ready(c, "addStory")
  /\ LET r == c.resp
         l == c.this
     IN
       IF r.state = "json" /\ Has(r.body, "story")
       THEN /\ lists' = [lists EXCEPT ![l] = Unshift(@, NewStory(r.body.story))]
            /\ Return(c, "Story")
       ELSE /\ lists' = [lists EXCEPT ![l] = Unshift(@, StoryArg(0))]
            /\ Throw(c)
  /\ UNCHANGED <<users, server>>

\* addStory also recording the new Story in the first User's ownStories.
AddStoryResumeOwn(c) ==
  /\ Ready(c, "addStory")
  /\ LET r == c.resp
         l == c.this
     IN
       IF r.state = "rejected" THEN FetchRejected(c) /\ UNCHANGED <<lists, users>>
       ELSE IF r.state = "notjson" THEN JsonRejected(c) /\ UNCHANGED <<lists, users>>
       ELSE IF ~Has(r.body, "story") THEN Throw(c) /\ UNCHANGED <<lists, users>>
       ELSE /\ lists' = [lists EXCEPT ![l] = Unshift(@, NewStory(r.body.story))]
            /\ users' = [users EXCEPT ![1].ownStories =
                           Unshift(@, NewStory(r.body.story))]
            /\ Return(c, "Story")
  /\ UNCHANGED server

AddStoryResume(c) ==
  /\ Ready(c, "addStory")
  /\ LET r == c.resp
         l == c.this
     IN
       IF r.state = "rejected" THEN FetchRejected(c) /\ UNCHANGED lists
       ELSE IF r.state = "notjson" THEN JsonRejected(c) /\ UNCHANGED lists
       ELSE IF ~Has(r.body, "story") THEN Throw(c) /\ UNCHANGED lists
       ELSE /\ lists' = [lists EXCEPT ![l] = Unshift(@, NewStory(r.body.story))]
            /\ Return(c, "Story")
  /\ UNCHANGED <<users, server>>

-----------------------------------------------------------------------------
\* User.signup, User.login, User.loginViaStoredCredentials

\* The object literal the three factories pass to the constructor:
\* the record's `stories` becomes `ownStories`.
UserData(user) ==
  [username |-> user.username, favorites |-> user.favorites,
   ownStories |-> user.stories]

\* userData.token: undefined when the body carries none.
TokenIn(body) == IF Has(body, "token") THEN body.token ELSE Undefined

\* signup and login: the User carries the token of the response.
IssuedUser(body) == NewUser(UserData(body.user), TokenIn(body))

\* loginViaStoredCredentials building its User as signup and login do.
RestoredUserBodyToken(body, token) == NewUser(UserData(body.user), TokenIn(body))

\* loginViaStoredCredentials: the User carries the caller's token.
RestoredUser(body, token) == NewUser(UserData(body.user), token)

Signup(username) ==
  /\ Fetch("signup", 0, 0, username, "pw")
  /\ UNCHANGED <<users, lists, last, server>>

SignupResume(c) ==
  /\ Ready(c, "signup")
  /\ LET r == c.resp IN
       IF r.state = "rejected" THEN FetchRejected(c) /\ UNCHANGED users
       ELSE IF r.state = "notjson" THEN JsonRejected(c) /\ UNCHANGED users
       ELSE IF ~Has(r.body, "user") THEN Throw(c) /\ UNCHANGED users
       ELSE /\ users' = Append(users, IssuedUser(r.body))
            /\ Return(c, "User")
  /\ UNCHANGED <<lists, server>>

Login(username, password) ==
  /\ Fetch("login", 0, 0, username, password)
  /\ UNCHANGED <<users, lists, last, server>>

LoginResume(c) ==
  /\ Ready(c, "login")
  /\ LET r == c.resp IN
       IF r.state = "rejected" THEN FetchRejected(c) /\ UNCHANGED users
       ELSE IF r.state = "notjson" THEN JsonRejected(c) /\ UNCHANGED users
       ELSE IF ~Has(r.body, "user") THEN Throw(c) /\ UNCHANGED users
       ELSE /\ users' = Append(users, IssuedUser(r.body))
            /\ Return(c, "User")
  /\ UNCHANGED <<lists, server>>

LoginViaStoredCredentials(token, username) ==
  /\ Fetch("loginViaStoredCredentials", 0, 0, username, token)
  /\ UNCHANGED <<users, lists, last, server>>

\* No catch block: the error reaches the caller.
Uncaught(c) == Settle(c, "threw", "error")

\* The catch block: log and return null.
CatchAndReturnNull(c) == Return(c, "null")

LoginViaStoredCredentialsResume(c) ==
  /\ Ready(c, "loginViaStoredCredentials")
  /\ LET r == c.resp IN
       IF r.state = "rejected" THEN CatchAndReturnNull(c) /\ UNCHANGED users
       ELSE IF r.state = "notjson" THEN CatchAndReturnNull(c) /\ UNCHANGED users
       ELSE IF ~Has(r.body, "user") THEN CatchAndReturnNull(c) /\ UNCHANGED users
       ELSE /\ users' = Append(users, RestoredUser(r.body, c.cred))
            /\ Return(c, "User")
  /\ UNCHANGED <<lists, server>>

-----------------------------------------------------------------------------
\* User.addFavorite, User.removeFavorite

\* favorites.splice(favorites.indexOf(story), 1) with indexOf by storyId:
\* index -1 (not found) makes splice remove the last entry.
SpliceOut(favorites, story) ==
  LET hits == {i \in DOMAIN favorites : favorites[i].storyId = story.storyId}
      k == IF hits = {} THEN Len(favorites)
           ELSE CHOOSE i \in hits : \A j \in hits : i <= j
  IN [j \in 1..(Len(favorites) - 1) |->
        IF j < k THEN favorites[j] ELSE favorites[j + 1]]

\* favorites.filter(s => s.storyId !== story.storyId)
FilterOut(favorites, story) ==
  SelectSeq(favorites, LAMBDA s : s.storyId # story.storyId)

\* addFavorite pushing only after the request has been confirmed.
AddFavoriteLate(u, story) ==
  /\ u \in DOMAIN users
  /\ Fetch("addFavorite", u, story.storyId, users[u].username, users[u].loginToken)
  /\ UNCHANGED <<users, lists, last, server>>

AddFavorite(u, story) ==
  /\ u \in DOMAIN users
  /\ users' = [users EXCEPT ![u].favorites = Append(@, story)]
  /\ Fetch("addFavorite", u, story.storyId, users[u].username, users[u].loginToken)
  /\ UNCHANGED <<lists, last, server>>

\* addFavorite undoing its push when the request fails.
AddFavoriteResumeRollback(c) ==
  /\ Ready(c, "addFavorite")
  /\ IF c.resp.state = "rejected"
     THEN /\ FetchRejected(c)
          /\ users' = [users EXCEPT ![c.this].favorites =
                         SubSeq(@, 1, Len(@) - 1)]
     ELSE Return(c, Undefined) /\ UNCHANGED users
  /\ UNCHANGED <<lists, server>>

AddFavoriteResume(c) ==
  /\ Ready(c, "addFavorite")
  /\ IF c.resp.state = "rejected" THEN FetchRejected(c)
     ELSE Return(c, Undefined)
  /\ UNCHANGED <<users, lists, server>>

RemoveFavorite(u, story) ==
  /\ u \in DOMAIN users
  /\ users' = [users EXCEPT ![u].favorites = FilterOut(@, story)]
  /\ Fetch("removeFavorite", u, story.storyId, users[u].username, users[u].loginToken)
  /\ UNCHANGED <<lists, last, server>>

RemoveFavoriteResume(c) ==
  /\ Ready(c, "removeFavorite")
  /\ IF c.resp.state = "rejected" THEN FetchRejected(c)
     ELSE Return(c, Undefined)
  /\ UNCHANGED <<users, lists, server>>

-----------------------------------------------------------------------------
\* The page: star icons and their click handler

\* The global currentUser: the User the page was rendered for.
CurrentUser == 1

\* generateStarHTML: the class of the star icon rendered for a story.
generateStarHTML(story) ==
  IF isFavorite(users[CurrentUser], story) THEN "bi-star-fill" ELSE "bi-star"

\* The handler's else branch leaving the filled class in place.
StarStaysFilled(class) == "bi-star-fill"

\* The class the handler leaves on the icon: removeClass/addClass of either
\* branch.
StarAfterClick(class) ==
  IF class = "bi-star" THEN "bi-star-fill" ELSE "bi-star"

\* selectAndUnselectFavoriteStory up to its await of Story.getStory, which
\* itself suspends on its fetch.
Click(id) ==
  /\ id \in DOMAIN stars
  /\ clicks < MaxClicks
  /\ clicks' = clicks + 1
  /\ nCalls' = nCalls + 1
  /\ fetches' = fetches + 1
  /\ calls' = calls (+) SetToBag({[op |-> HandlerOp, this |-> 0, story |-> id,
                                   username |-> "", cred |-> "",
                                   resp |-> Pending]})
  /\ UNCHANGED <<users, lists, last, stars, server>>

\* Story.getStory settles and the handler runs on to its next await: the
\* class test, the class change and the synchronous part of addFavorite or
\* removeFavorite (up to its fetch) are one step.  When getStory throws, the
\* handler ends there.
ClickResume(c) ==
  /\ Ready(c, HandlerOp)
  /\ LET r == c.resp
         me == users[CurrentUser]
         failed == r.state # "json" \/ ~Has(r.body, "story")
     IN
       /\ last' = [op |-> "getStory", state |-> r.state, ok |-> r.ok,
                   outcome |-> IF failed THEN "threw" ELSE "returned",
                   value |-> IF failed THEN "error" ELSE "Story"]
       /\ IF failed
          THEN /\ calls' = calls (-) SetToBag({c})
               /\ UNCHANGED <<users, stars, nCalls, fetches>>
          ELSE LET story == NewStory(r.body.story)
                   add == stars[c.story] = "bi-star"
               IN
               /\ stars' = [stars EXCEPT ![c.story] = StarAfterClick(@)]
               /\ users' = [users EXCEPT ![CurrentUser].favorites =
                              IF add THEN Append(@, story)
                              ELSE FilterOut(@, story)]
               /\ nCalls' = nCalls + 1
               /\ fetches' = fetches + 1
               /\ calls' = (calls (-) SetToBag({c})) (+)
                    SetToBag({[op |-> IF add THEN "addFavorite"
                                      ELSE "removeFavorite",
                               this |-> CurrentUser, story |-> story.storyId,
                               username |-> me.username, cred |-> me.loginToken,
                               resp |-> Pending]})
  /\ UNCHANGED <<lists, clicks, server>>

-----------------------------------------------------------------------------
\* The state once the page has loaded and a user has logged in: the service
\* holds the initial stories and the account "u1", with none or all of them
\* its favorites;
\* the client holds the StoryList getStories built and the User login built
\* from the service's records, and the page shows the list's stories, each
\* with its star.
Init ==
  /\ srvStories = [i \in 1..NumStories |->
                     [storyId |-> NumStories + 1 - i, username |-> "u1"]]
  /\ srvAccounts = {"u1"}
  /\ srvFavs \in {[u \in Usernames |-> IF u = "u1" THEN f ELSE {}] :
                    f \in {{}, 1..NumStories}}
  /\ users = <<NewUser(UserData(SrvUser("u1")), TokenOf["u1"])>>
  /\ lists = <<MapStories(srvStories)>>
  /\ calls = EmptyBag
  /\ last = NoLast
  /\ nCalls = 0
  /\ fetches = 0
  /\ stars = [id \in Ids(lists[1]) |-> generateStarHTML(StoryArg(id))]
  /\ clicks = 0

-----------------------------------------------------------------------------
Next ==
  \/ \E id \in {1, NumStories + 1} : GetStory(id)
  \/ \E c \in BagToSet(calls) : GetStoryResume(c)
  \/ GetStories
  \/ \E c \in BagToSet(calls) : GetStoriesResume(c)
  \/ \E l \in DOMAIN lists, u \in DOMAIN users : AddStory(l, u)
  \/ \E c \in BagToSet(calls) : AddStoryResume(c)
  \/ \E username \in Usernames : Signup(username)
  \/ \E c \in BagToSet(calls) : SignupResume(c)
  \/ \E password \in Passwords : Login("u1", password)
  \/ \E c \in BagToSet(calls) : LoginResume(c)
  \/ \E token \in {TokenOf["u1"], StaleToken} : LoginViaStoredCredentials(token, "u1")
  \/ \E c \in BagToSet(calls) : LoginViaStoredCredentialsResume(c)
  \/ \E u \in DOMAIN users, id \in StoryIds : AddFavorite(u, StoryArg(id))
  \/ \E c \in BagToSet(calls) : AddFavoriteResume(c)
  \/ \E u \in DOMAIN users, id \in StoryIds : RemoveFavorite(u, StoryArg(id))
  \/ \E c \in BagToSet(calls) : RemoveFavoriteResume(c)
  \/ \E c \in BagToSet(calls) : Serve(c)
  \/ \E c \in BagToSet(calls) : DropRequest(c)
  \/ \E c \in BagToSet(calls) : Refuse(c)
  \/ \E c \in BagToSet(calls) : BadGateway(c)

Spec == Init /\ [][Next]_vars

\* The page in use: the only calls are those of star click handlers.
NextClick ==
  \/ \E id \in DOMAIN stars : Click(id)
  \/ \E c \in BagToSet(calls) : ClickResume(c)
  \/ \E c \in BagToSet(calls) : AddFavoriteResume(c)
  \/ \E c \in BagToSet(calls) : RemoveFavoriteResume(c)
  \/ \E c \in BagToSet(calls) : Serve(c)
  \/ \E c \in BagToSet(calls) : DropRequest(c)
  \/ \E c \in BagToSet(calls) : Refuse(c)
  \/ \E c \in BagToSet(calls) : BadGateway(c)

SpecClick == Init /\ [][NextClick]_vars

-----------------------------------------------------------------------------
\* Steps, told by what they do to the bag of suspended invocations

\* This step starts an invocation of op on receiver this for story id.
Issued(op, this, story) ==
  \E c \in BagToSet(calls') :
    /\ c.op = op /\ c.this = this /\ c.story = story
    /\ c.resp.state = "pending"
    /\ CopiesIn(c, calls') = CopiesIn(c, calls) + 1

\* This step resumes invocation c after its await and settles it.
Settled(c) ==
  /\ BagIn(c, calls)
  /\ c.resp.state # "pending"
  /\ CopiesIn(c, calls') = CopiesIn(c, calls) - 1

FavoriteOps == {"addFavorite", "removeFavorite"}
Restore == "loginViaStoredCredentials"

-----------------------------------------------------------------------------
\* C1: every addStory that returns has put the Story built from the response
\* at index 0 of its list, made the list exactly one longer, and left the
\* stories that were there behind it in their order; no other list changes.
C1_AddStoryPrepends ==
  [][\A c \in BagToSet(calls) :
       (c.op = "addStory" /\ Settled(c) /\ last'.outcome = "returned") =>
         /\ Len(lists'[c.this]) = Len(lists[c.this]) + 1
         /\ lists'[c.this][1] = NewStory(c.resp.body.story)
         /\ Tail(lists'[c.this]) = lists[c.this]
         /\ \A l \in DOMAIN lists : l # c.this => lists'[l] = lists[l]]_vars

\* A returned addStory with the new story in front of the initial ones.
C1_Witness ==
  /\ last.op = "addStory" /\ last.outcome = "returned"
  /\ Len(lists[1]) = NumStories + 1
  /\ lists[1][1].storyId = NumStories + 1
  /\ \A k \in 1..NumStories : lists[1][k + 1].storyId = NumStories + 1 - k

\* C2: right after addFavorite(s) is called isFavorite(s) is true, right after
\* removeFavorite(s) is called it is false, and the step that settles either
\* call leaves every User as it is, whatever the response was.
C2_FavoriteLocalGuarantee ==
  [][/\ \A u \in DOMAIN users, id \in StoryIds :
          /\ Issued("addFavorite", u, id) => isFavorite(users'[u], StoryArg(id))
          /\ Issued("removeFavorite", u, id) => ~isFavorite(users'[u], StoryArg(id))
     /\ \A c \in BagToSet(calls) :
          (c.op \in FavoriteOps /\ Settled(c)) => users' = users]_vars

\* An addFavorite whose request failed in transport has thrown, and the story
\* is still a local favorite although the service does not record it.
C2_Witness ==
  /\ last.op = "addFavorite" /\ last.state = "rejected" /\ last.outcome = "threw"
  /\ calls = EmptyBag
  /\ \E id \in StoryIds :
       isFavorite(users[1], StoryArg(id)) /\ id \notin srvFavs["u1"]

\* C3: loginViaStoredCredentials never throws; it returns a User exactly when
\* the service answered the profile request with success, and null otherwise.
C3_RestoreNeverThrows ==
  last.op = Restore =>
    /\ last.outcome = "returned"
    /\ last.value \in {"User", "null"}
    /\ (last.value = "User") <=> (last.state = "json" /\ last.ok)

\* Restoration with a token the service rejects ended in null.
C3_Witness ==
  /\ last.op = Restore /\ last.state = "json" /\ ~last.ok
  /\ last.outcome = "returned" /\ last.value = "null"

\* C4: no User's favorites holds two entries with the same storyId.
C4_NoDuplicateFavorites ==
  \A u \in DOMAIN users :
    \A i, j \in DOMAIN users[u].favorites :
      i # j => users[u].favorites[i].storyId # users[u].favorites[j].storyId

\* C5: whenever no favorite request is suspended, each User's favorite ids are
\* the ids the service records for its account.
C5_FavoritesMirrorService ==
  (\A c \in BagToSet(calls) : c.op \notin FavoriteOps) =>
    \A u \in DOMAIN users : Ids(users[u].favorites) = srvFavs[users[u].username]

\* C6 as stated: the step that starts addFavorite, removeFavorite or addStory,
\* ending at its suspension on the request, has made the local mutation.
C6_MutationBeforeSuspension ==
  [][/\ \A u \in DOMAIN users, id \in StoryIds :
          /\ Issued("addFavorite", u, id) =>
               users'[u].favorites = Append(users[u].favorites, StoryArg(id))
          /\ Issued("removeFavorite", u, id) =>
               users'[u].favorites = FilterOut(users[u].favorites, StoryArg(id))
     /\ \A l \in DOMAIN lists :
          Issued("addStory", l, 0) => Len(lists'[l]) = Len(lists[l]) + 1]_vars

\* C6 amended: addFavorite's push and removeFavorite's filter are made in the
\* step that starts the call; addStory leaves its list alone in that step, and
\* a list changes only in the step that settles an addStory whose response
\* carries a story.
C6_MutationOrder ==
  [][/\ \A u \in DOMAIN users, id \in StoryIds :
          /\ Issued("addFavorite", u, id) =>
               users'[u].favorites = Append(users[u].favorites, StoryArg(id))
          /\ Issued("removeFavorite", u, id) =>
               users'[u].favorites = FilterOut(users[u].favorites, StoryArg(id))
     /\ \A l \in DOMAIN lists :
          /\ Issued("addStory", l, 0) => lists'[l] = lists[l]
          /\ lists'[l] # lists[l] =>
               \E c \in BagToSet(calls) :
                 /\ c.op = "addStory" /\ c.this = l /\ Settled(c)
                 /\ c.resp.state = "json" /\ Has(c.resp.body, "story")]_vars

\* An addFavorite and an addStory both suspended on their requests: the story
\* is already a favorite, the list is still the initial one.
C6_Witness ==
  /\ \E c \in BagToSet(calls) :
       /\ c.op = "addFavorite" /\ c.resp.state = "pending"
       /\ isFavorite(users[c.this], StoryArg(c.story))
       /\ c.story \notin srvFavs["u1"]
  /\ \E c \in BagToSet(calls) :
       /\ c.op = "addStory" /\ c.resp.state = "pending"
       /\ Len(lists[c.this]) = NumStories

\* C7: in the state a removeFavorite(s) call leaves, filtering s out once more
\* gives the same favorites, entry for entry; and a removeFavorite(s) called
\* when s is no favorite leaves favorites as it is.
C7_RemoveIdempotent ==
  [][\A u \in DOMAIN users, id \in StoryIds :
       Issued("removeFavorite", u, id) =>
         /\ FilterOut(users'[u].favorites, StoryArg(id)) = users'[u].favorites
         /\ ~isFavorite(users[u], StoryArg(id)) =>
              users'[u].favorites = users[u].favorites]_vars

\* removeFavorite(s) has been called twice in a row (both calls are still
\* suspended) and the other favorite is still there.
C7_Witness ==
  \E c \in BagToSet(calls) :
    /\ c.op = "removeFavorite" /\ CopiesIn(c, calls) = 2
    /\ ~isFavorite(users[c.this], StoryArg(c.story))
    /\ Len(users[c.this].favorites) = NumStories - 1

\* C8: an operation other than session restoration whose request got a
\* non-success response has thrown.
C8_NonSuccessFails ==
  (last.op \notin {"none", Restore} /\ last.state = "json" /\ ~last.ok) =>
    last.outcome = "threw"

\* C9: every invocation has issued exactly one request, and an invocation
\* whose request failed in transport has ended with that one failure: thrown
\* to the caller, or null from session restoration.
C9_OneRequestNoRetry ==
  /\ fetches = nCalls
  /\ BagCardinality(calls) <= nCalls
  /\ last.state = "rejected" =>
       IF last.op = Restore
       THEN last.outcome = "returned" /\ last.value = "null"
       ELSE last.outcome = "threw"

\* Two invocations, one of them ended by a transport failure, two requests.
C9_Witness ==
  /\ last.state = "rejected" /\ last.outcome = "threw"
  /\ nCalls = 2 /\ fetches = 2 /\ calls = EmptyBag

\* C10: a User's loginToken never changes once the User exists, and a User is
\* built with the token of the response (signup, login) or with the token the
\* caller passed (loginViaStoredCredentials).
C10_TokenFixed ==
  [][/\ \A u \in DOMAIN users :
          u \in DOMAIN users' /\ users'[u].loginToken = users[u].loginToken
     /\ \A c \in BagToSet(calls) :
          (Settled(c) /\ last'.value = "User") =>
            /\ Len(users') = Len(users) + 1
            /\ users'[Len(users')].loginToken =
                 IF c.op = Restore THEN c.cred ELSE TokenOf[c.username]]_vars

\* A restored User carries the stored token, and still does with an
\* addFavorite on it under way.
C10_Witness ==
  /\ last.op = Restore /\ last.value = "User"
  /\ Len(users) = 2 /\ users[2].loginToken = TokenOf["u1"]
  /\ \E c \in BagToSet(calls) : c.op = "addFavorite" /\ c.this = 2

\* C11: an addStory whose request failed in transport, or whose response
\* carries no story record, throws to its caller and leaves every list as it
\* was: a Story is inserted only by an addStory that returns.
C11_AddStoryFailureLeavesList ==
  [][\A c \in BagToSet(calls) :
       (c.op = "addStory" /\ Settled(c)) =>
         IF c.resp.state = "json" /\ Has(c.resp.body, "story")
         THEN last'.outcome = "returned" /\ lists' # lists
         ELSE last'.outcome = "threw" /\ lists' = lists]_vars

\* An addStory answered with an error body has thrown; the list still holds
\* exactly the initial stories.
C11_Witness ==
  /\ last.op = "addStory" /\ last.state = "json" /\ ~last.ok
  /\ last.outcome = "threw"
  /\ lists[1] = [i \in 1..NumStories |-> StoryArg(NumStories + 1 - i)]

\* The entries of a favorites sequence whose storyId is not id, in order.
RECURSIVE Others(_, _)
Others(favorites, id) ==
  IF favorites = << >> THEN << >>
  ELSE IF Head(favorites).storyId = id THEN Others(Tail(favorites), id)
  ELSE <<Head(favorites)>> \o Others(Tail(favorites), id)

\* C13: removeFavorite(s) leaves exactly the entries with another storyId, in
\* their order (every entry for s is gone); addFavorite(s) leaves the prior
\* entries in place and s as the last entry.
C13_FavoritesEdits ==
  [][\A u \in DOMAIN users, id \in StoryIds :
       /\ Issued("removeFavorite", u, id) =>
            /\ users'[u].favorites = Others(users[u].favorites, id)
            /\ id \notin Ids(users'[u].favorites)
       /\ Issued("addFavorite", u, id) =>
            /\ Len(users'[u].favorites) = Len(users[u].favorites) + 1
            /\ users'[u].favorites[Len(users'[u].favorites)] = StoryArg(id)
            /\ SubSeq(users'[u].favorites, 1, Len(users[u].favorites))
                 = users[u].favorites]_vars

\* addFavorite(s) on a favorite s and then removeFavorite(s) have been called
\* (both still suspended): both entries for s are gone, the other favorites
\* are all there.
C13_Witness ==
  \E a, r \in BagToSet(calls) :
    /\ a.op = "addFavorite" /\ r.op = "removeFavorite"
    /\ a.this = 1 /\ r.this = 1 /\ a.story = r.story
    /\ a.story \in srvFavs["u1"]
    /\ a.resp.state = "pending" /\ r.resp.state = "pending"
    /\ Ids(users[1].favorites) = (1..NumStories) \ {a.story}
    /\ Len(users[1].favorites) = NumStories - 1

\* C14: no step changes a User's ownStories or username; the step settling an
\* addStory changes no User and no list but its receiver; the step starting
\* addFavorite or removeFavorite changes no list and, of the Users, only the
\* receiver's favorites.
C14_Frame ==
  [][/\ \A u \in DOMAIN users :
          /\ u \in DOMAIN users'
          /\ users'[u].ownStories = users[u].ownStories
          /\ users'[u].username = users[u].username
     /\ \A c \in BagToSet(calls) :
          (c.op = "addStory" /\ Settled(c)) =>
            /\ users' = users
            /\ \A l \in DOMAIN lists : l # c.this => lists'[l] = lists[l]
     /\ \A u \in DOMAIN users, id \in StoryIds :
          (Issued("addFavorite", u, id) \/ Issued("removeFavorite", u, id)) =>
            /\ lists' = lists
            /\ \A v \in DOMAIN users : v # u => users'[v] = users[v]]_vars

\* The first User posted a story: the service lists it among the account's
\* stories, the list shows it in front, ownStories is as constructed.
C14_Witness ==
  /\ last.op = "addStory" /\ last.outcome = "returned"
  /\ lists[1][1] = [storyId |-> NumStories + 1, username |-> "u1"]
  /\ Len(SrvUser("u1").stories) = NumStories + 1
  /\ Len(users[1].ownStories) = NumStories

\* C12: with star click handlers as the only callers, overlapping in any way,
\* at every point where control is yielded each star icon has the filled
\* class exactly when currentUser.isFavorite says so for its story, and
\* favorites holds at most one entry for that story.
C12_StarMatchesFavorites ==
  \A id \in DOMAIN stars :
    /\ (stars[id] = "bi-star-fill") <=> isFavorite(users[CurrentUser], StoryArg(id))
    /\ Cardinality({i \in DOMAIN users[CurrentUser].favorites :
                      users[CurrentUser].favorites[i].storyId = id}) <= 1

\* Two handlers on one star overlap: one has filled the star and is suspended
\* in addFavorite, the other's getStory has been answered and it has yet to
\* resume.
C12_Witness ==
  \E h, a \in BagToSet(calls) :
    /\ h.op = HandlerOp /\ h.resp.state = "json" /\ h.resp.ok
    /\ a.op = "addFavorite" /\ a.story = h.story
    /\ stars[h.story] = "bi-star-fill"
    /\ isFavorite(users[CurrentUser], StoryArg(h.story))
    /\ h.story \notin srvFavs["u1"]
====
